---------------------------- MODULE Spec2Model ----------------------------
(***************************************************************************)
(* Model of src/read-ts-cns-data.py: the TS-CNS smart-card pipeline.       *)
(* main() connects to the card, get_ts_data() drives three SELECTs and a   *)
(* READ BINARY with status-driven retries through send_apdu(), and         *)
(* decode_ts_data() walks the length-prefixed record.                      *)
(*                                                                         *)
(* Bytes are the integers 0..255; a bytes object, a str of ASCII text and  *)
(* a list of ints are all sequences of such integers.                      *)
(***************************************************************************)
EXTENDS Integers, Sequences, FiniteSets, TLC

VARIABLES
    debug,        \* args.debug
    pc,           \* position of main()/get_ts_data()
    connected,    \* connection.connect() has succeeded in this run
    disconnects,  \* number of connection.disconnect() invocations in this run
    sent,         \* the APDUs handed to connection.transmit, in order
    response,     \* get_ts_data local: response
    sw1,          \* get_ts_data local: sw1
    sw2,          \* get_ts_data local: sw2
    ts_data,      \* main local: the value returned by get_ts_data
    decodes,      \* the buffers decode_ts_data was invoked on, in order
    out,          \* what the run printed through error_msg/warn_msg/success_msg
    exc,          \* the exception that left main(), "" when none
    env,          \* what the reader, the card and the transport did so far
    run,          \* 1 for the first execution of the script, 2 for the second
    prev,         \* what the first execution did, once it has ended
    entered_pin,        \* activate_relay_via_pin_code.py: the digits typed so far
    entered_pin_is_ok,  \* ... the typed PIN was found equal to correct_pin
    gpio,               \* ... level of the four relay outputs, by BCM number
    lcd,                \* ... first lines the last handler put on the display
    registered,         \* ... key_pressed is registered with the keypad
    exited,             \* ... the script has left through sys.exit() or finally
    pressed             \* ... the key handled last

cardvars == <<debug, pc, connected, disconnects, sent, response, sw1, sw2,
              ts_data, decodes, out, exc, env, run, prev>>

pinvars == <<entered_pin, entered_pin_is_ok, gpio, lcd, registered, exited, pressed>>

vars == <<cardvars, pinvars>>

---------------------------------------------------------------------------
(* Bounds of the model. *)

\* how many bytes may be missing from the end of a record the card returns
MaxCut == 2

---------------------------------------------------------------------------
(* Bytes and Python's slicing, int(x, 16) and bytes.decode('ascii'). *)

Min(a, b) == IF a < b THEN a ELSE b
Max(a, b) == IF a > b THEN a ELSE b

\* Python's s[a:b] on a sequence of length n: a negative index counts from
\* the end, both indices are clamped to 0..n, an empty range gives "".
SliceIndex(i, n) == IF i < 0 THEN Max(i + n, 0) ELSE Min(i, n)

Slice(s, a, b) ==
    LET lo == SliceIndex(a, Len(s))
        hi == SliceIndex(b, Len(s))
    IN  IF hi <= lo THEN <<>> ELSE SubSeq(s, lo + 1, hi)

IsSpace(b) == b \in {9, 10, 11, 12, 13, 32}

IsHexDigit(b) == b \in (48..57) \cup (65..70) \cup (97..102)

HexVal(b) == IF b \in 48..57 THEN b - 48
             ELSE IF b \in 65..70 THEN b - 55
             ELSE b - 87

RECURSIVE LStrip(_)
LStrip(s) == IF s # <<>> /\ IsSpace(Head(s)) THEN LStrip(Tail(s)) ELSE s

RECURSIVE RStrip(_)
RStrip(s) == IF s # <<>> /\ IsSpace(s[Len(s)])
             THEN RStrip(SubSeq(s, 1, Len(s) - 1)) ELSE s

RECURSIVE HexDigitsVal(_, _)
HexDigitsVal(s, acc) ==
    IF s = <<>> THEN acc ELSE HexDigitsVal(Tail(s), acc * 16 + HexVal(Head(s)))

\* int(x, 16) for a bytes object x of at most two bytes (the decoder only
\* passes dati_bytes[pos:pos + 2]): surrounding whitespace is skipped, one
\* sign is accepted, what is left must be one or two hex digits.  A "0x"
\* prefix or an underscore needs three bytes to be accepted.
int16(x) ==
    LET t    == RStrip(LStrip(x))
        neg  == t # <<>> /\ Head(t) = 45
        sgn  == t # <<>> /\ Head(t) \in {43, 45}
        digs == IF sgn THEN Tail(t) ELSE t
    IN  IF digs # <<>> /\ \A i \in 1..Len(digs) : IsHexDigit(digs[i])
        THEN [ok |-> TRUE,
              val |-> IF neg THEN 0 - HexDigitsVal(digs, 0)
                      ELSE HexDigitsVal(digs, 0)]
        ELSE [ok |-> FALSE, val |-> 0]

\* bytes.decode('ascii') raises UnicodeDecodeError on a byte >= 0x80 and is
\* the same code points otherwise.
IsAscii(s) == \A i \in 1..Len(s) : s[i] < 128

---------------------------------------------------------------------------
(* decode_ts_data *)

\* faulty variant: cognome and nome are read in the other order
FieldNames_swapped ==
    <<"emettitore", "data_emissione", "data_scadenza", "nome", "cognome",
      "data_nascita", "sesso", "statura", "codice_fiscale", "cittadinanza",
      "comune_nascita">>

\* the keys of dati_ts, in the order the fields are read
FieldNames == <<"emettitore", "data_emissione", "data_scadenza", "cognome",
                "nome", "data_nascita", "sesso", "statura", "codice_fiscale",
                "cittadinanza", "comune_nascita">>

\* the fields stored as f"{data[0:2]}/{data[2:4]}/{data[4:8]}"
DateFields == {2, 3, 6}

\* pos = 6: the first six bytes are skipped
HeaderLen == 6

\* f"{data[0:2]}/{data[2:4]}/{data[4:8]}"
FormatDate(data) ==
    Slice(data, 0, 2) \o <<47>> \o Slice(data, 2, 4) \o <<47>> \o Slice(data, 4, 8)

\* the value stored for field k from the bytes dati_bytes[pos:pos + field_len]
FieldValue(k, raw) == IF k \in DateFields THEN FormatDate(raw) ELSE raw

\* None, as decode_ts_data returns it from its except branch
DecodeNone(k, err, trace, pos) ==
    [none |-> TRUE, dati_ts |-> <<>>, error |-> err, field |-> k, trace |-> trace,
     pos |-> pos]

\* faulty variant: a zero-length field is stored as an empty string
Stores_ge0(field_len) == field_len >= 0

\* if field_len > 0: the field is stored
Stores(field_len) == field_len > 0

\* One field of decode_ts_data and all the fields after it: read the length
\* prefix, store the value when field_len > 0, advance pos.  trace keeps, for
\* each field whose prefix was read, the position of the prefix, the declared
\* length and the number of bytes the slice delivered.
RECURSIVE DecodeFrom(_, _, _, _, _)
DecodeFrom(dati_bytes, pos, k, dati_ts, trace) ==
    IF k > Len(FieldNames)
    THEN [none |-> FALSE, dati_ts |-> dati_ts, error |-> "", field |-> 0,
          trace |-> trace, pos |-> pos]
    ELSE
    LET pfx       == int16(Slice(dati_bytes, pos, pos + 2))
        field_len == pfx.val
        raw       == Slice(dati_bytes, pos + 2, pos + 2 + field_len)
        step      == [at |-> pos, len |-> field_len,
                      got |-> IF Stores(field_len) THEN Len(raw) ELSE 0]
    IN  IF ~pfx.ok THEN DecodeNone(k, "ValueError", trace, pos)
        ELSE IF Stores(field_len) /\ ~IsAscii(raw)
        THEN DecodeNone(k, "UnicodeDecodeError", Append(trace, step), pos + 2)
        ELSE DecodeFrom(dati_bytes, pos + 2 + field_len, k + 1,
                        IF Stores(field_len)
                        THEN (FieldNames[k] :> FieldValue(k, raw)) @@ dati_ts
                        ELSE dati_ts,
                        Append(trace, step))

decode_ts_data(raw_data) == DecodeFrom(raw_data, HeaderLen, 1, <<>>, <<>>)

---------------------------------------------------------------------------
(* Hex and printable renderings used by get_ts_data. *)

HexChar(n) == IF n < 10 THEN 48 + n ELSE 55 + n

\* ''.join([f'{b:02X}' for b in response])
RECURSIVE ToHex(_)
ToHex(bytes) ==
    IF bytes = <<>> THEN <<>>
    ELSE <<HexChar(Head(bytes) \div 16), HexChar(Head(bytes) % 16)>>
         \o ToHex(Tail(bytes))

\* faulty variant: 126 ('~') is rendered as '.'
RECURSIVE hex_to_string_lt(_)
hex_to_string_lt(hex_data) ==
    IF Len(hex_data) < 2 THEN <<>>
    ELSE LET char_code == HexDigitsVal(SubSeq(hex_data, 1, 2), 0)
         IN  <<IF 32 <= char_code /\ char_code < 126 THEN char_code ELSE 46>>
             \o hex_to_string_lt(SubSeq(hex_data, 3, Len(hex_data)))

RECURSIVE hex_to_string(_)
hex_to_string(hex_data) ==
    IF Len(hex_data) < 2 THEN <<>>
    ELSE LET char_code == HexDigitsVal(SubSeq(hex_data, 1, 2), 0)
         IN  <<IF 32 <= char_code /\ char_code <= 126 THEN char_code ELSE 46>>
             \o hex_to_string(SubSeq(hex_data, 3, Len(hex_data)))

\* dump_raw_data, line 274:
\* ''.join([chr(b) if 32 <= b <= 126 else '.' for b in raw_data])
ascii_dump(raw_data) ==
    [i \in 1..Len(raw_data) |->
        IF 32 <= raw_data[i] /\ raw_data[i] <= 126 THEN raw_data[i] ELSE 46]

---------------------------------------------------------------------------
(* The records a card may hold. *)

Header == <<0, 0, 0, 0, 0, 0>>

\* length-prefixed segments: well formed, and the malformed ones a damaged or
\* foreign card can deliver
Seg00     == <<48, 48>>                                   \* 00
SegText   == <<48, 49, 77>>                               \* 01 M
SegDate8  == <<48, 56, 48, 49, 48, 49, 50, 48, 51, 48>>   \* 08 01012030
SegDate6  == <<48, 54, 48, 49, 48, 49, 50, 48>>           \* 06 010120
SegDate9  == <<48, 57, 48, 49, 48, 49, 50, 48, 51, 48, 49>> \* 09 010120301
SegHexLen == <<48, 65, 48, 49, 50, 51, 52, 53, 54, 55, 56, 57>> \* 0A 0123456789
SegHigh   == <<48, 49, 200>>                              \* 01 <0xC8>
SegMinus  == <<45, 49>>                                   \* -1
SegPlus   == <<43, 49, 77>>                               \* +1 M
SegSpace  == <<32, 49, 77>>                               \* " 1" M
SegBad    == <<90, 90>>                                   \* ZZ
SegLong   == <<70, 70, 77>>                               \* FF M
SegIssuer == <<48, 54, 77, 73, 78, 73, 78, 84>>           \* 06 MININT

Segs == {Seg00, SegText, SegDate8, SegDate6, SegDate9, SegHexLen, SegHigh,
         SegMinus, SegPlus, SegSpace, SegBad, SegLong, SegIssuer}

\* a well-formed segment for field k: empty, or a value of the field's kind
Filler(k, full) ==
    IF ~full THEN Seg00 ELSE IF k \in DateFields THEN SegDate8 ELSE SegText

RECURSIVE Layout(_, _, _, _)
Layout(k, p, seg, full) ==
    IF k > Len(FieldNames) THEN <<>>
    ELSE (IF k = p THEN seg ELSE Filler(k, full)) \o Layout(k + 1, p, seg, full)

\* header, eleven segments of which the p-th is seg, the last cut bytes lost
Record(p, seg, full, cut) ==
    LET b == Header \o Layout(1, p, seg, full)
    IN  SubSeq(b, 1, Len(b) - cut)

Records == {Record(p, seg, full, cut) :
               p \in 1..Len(FieldNames), seg \in Segs, full \in BOOLEAN,
               cut \in 0..MaxCut}

\* a record of printable bytes only: header " ~A09z", eleven fields 01 M
\* or 08 01012030
RecordText == <<32, 126, 65, 48, 57, 122>> \o Layout(1, 1, SegText, TRUE)

\* a record whose header holds the bytes around the printable range:
\* 1F 20 7E 7F 00 FF
RecordEdge == <<31, 32, 126, 127, 0, 255>> \o Layout(1, 1, SegText, FALSE)

\* what a READ BINARY answered 90 00 may carry
Payloads == Records \cup {<<>>, RecordText, RecordEdge}

---------------------------------------------------------------------------
(* The reader, the card and the transport. *)

SELECT_MF      == <<0, 164, 0, 0, 2, 63, 0>>    \* 00 A4 00 00 02 3F 00
SELECT_DF1     == <<0, 164, 0, 0, 2, 17, 0>>    \* 00 A4 00 00 02 11 00
SELECT_EF_PERS == <<0, 164, 0, 0, 2, 17, 2>>    \* 00 A4 00 00 02 11 02
\* faulty variant: the initial READ BINARY asks for 0xFF bytes
READ_BIN_ff    == <<0, 176, 0, 0, 255>>
READ_BIN       == <<0, 176, 0, 0, 0>>           \* 00 B0 00 00 00

\* the status words a card answers with: 90 00, 6C 10, 6C 28, 67 00, 67 01,
\* 6A 82, 90 01
StatusWords == {<<144, 0>>, <<108, 16>>, <<108, 40>>, <<103, 0>>, <<103, 1>>,
                <<106, 130>>, <<144, 1>>}

\* what a failed READ BINARY may still carry
Junk == <<0, 0, 0, 0, 0, 0, 48, 49, 74>>

\* connection.transmit raised
Raised == [raises |-> TRUE, payload |-> <<>>, sw1 |-> 0, sw2 |-> 0]

Reply(payload, sw) ==
    [raises |-> FALSE, payload |-> payload, sw1 |-> sw[1], sw2 |-> sw[2]]

\* what connection.transmit may do on a SELECT.  The code overwrites the
\* payload of a SELECT before reading it, so one payload stands for all.
SelectReplies == {Raised} \cup {Reply(<<>>, sw) : sw \in StatusWords}

\* what connection.transmit may do on a READ BINARY
ReadReplies ==
    {Raised}
    \cup {Reply(p, <<144, 0>>) : p \in Payloads}
    \cup {Reply(p, sw) : p \in {<<>>, Junk}, sw \in StatusWords \ {<<144, 0>>}}

\* the n-th transmit of an execution: what the transport did at that point of
\* an earlier execution against the same card, anything when there was none
Transmits(replies) ==
    IF Len(sent) < Len(env.apdu) THEN {env.apdu[Len(sent) + 1]} ELSE replies

\* likewise for the calls that either return or raise
Outcomes(was) == IF was = "?" THEN {"ok", "raise"} ELSE {was}

---------------------------------------------------------------------------
(* send_apdu and get_ts_data *)

\* faulty variant: the except branch returns a status that passes the 90 00 test
send_apdu_ok_sentinel(r) ==
    IF r.raises THEN [response |-> <<>>, sw1 |-> 144, sw2 |-> 0]
    ELSE [response |-> r.payload, sw1 |-> r.sw1, sw2 |-> r.sw2]

\* send_apdu: the transport's answer, or ([], 0, 0) when transmit raised
send_apdu(r) ==
    IF r.raises THEN [response |-> <<>>, sw1 |-> 0, sw2 |-> 0]
    ELSE [response |-> r.payload, sw1 |-> r.sw1, sw2 |-> r.sw2]

\* faulty variant: only sw1 is tested
Failed_sw1_only(a) == a.sw1 # 144

\* the test get_ts_data applies after each command: sw1 != 0x90 or sw2 != 0x00
Failed(a) == a.sw1 # 144 \/ a.sw2 # 0

\* faulty variant: the two status bytes are printed in the other order
Msg_swapped(text, a, b) == [msg |-> text, sw1 |-> b, sw2 |-> a]

\* a line printed as f"{text}: SW1={sw1:02X}, SW2={sw2:02X}", or text alone
Msg(text, a, b) == [msg |-> text, sw1 |-> a, sw2 |-> b]

\* a line printed as f"{text}: {e}"; of the exception only its type is kept
\* (its text quotes the bytes int() or decode() refused)
MsgExc(text, e) == [msg |-> text, e |-> e]

\* the value of ts_data when get_ts_data returned None
None == [none |-> TRUE, raw_data |-> <<>>, hex_data |-> <<>>,
         string_data |-> <<>>, decoded_data |-> DecodeNone(0, "", <<>>, 0)]

\* faulty variant: a payload already received is not replaced by a later one
Transmit_keep_first(apdu, r) ==
    LET a == send_apdu(r)
    IN  /\ sent' = Append(sent, apdu)
        /\ response' = IF response # <<>> THEN response ELSE a.response
        /\ sw1' = a.sw1
        /\ sw2' = a.sw2
        /\ env' = [env EXCEPT !.apdu =
                      IF Len(sent) < Len(@) THEN @ ELSE Append(@, r)]

\* one call of send_apdu(connection, apdu) with the transport doing r
Transmit(apdu, r) ==
    LET a == send_apdu(r)
    IN  /\ sent' = Append(sent, apdu)
        /\ response' = a.response
        /\ sw1' = a.sw1
        /\ sw2' = a.sw2
        /\ env' = [env EXCEPT !.apdu =
                      IF Len(sent) < Len(@) THEN @ ELSE Append(@, r)]

\* error_msg(...) and return None
ReturnNone(text, a) ==
    /\ out' = Append(out, Msg(text, a.sw1, a.sw2))
    /\ ts_data' = None
    /\ pc' = "report"

\* a SELECT and the check that follows it
Select(here, apdu, text, next) ==
    /\ pc = here
    /\ \E r \in Transmits(SelectReplies) :
          /\ Transmit(apdu, r)
          /\ IF Failed(send_apdu(r))
             THEN ReturnNone(text, send_apdu(r))
             ELSE /\ pc' = next
                  /\ UNCHANGED <<out, ts_data>>
    /\ UNCHANGED <<pinvars, debug, connected, disconnects, decodes, exc, run, prev>>

SelectMF == Select("select_mf", SELECT_MF, "Errore durante la selezione del Master File", "select_df")

SelectDF == Select("select_df", SELECT_DF1, "Errore durante la selezione del DF", "select_ef")

SelectEF == Select("select_ef", SELECT_EF_PERS, "Errore durante la selezione dell'EF", "read_bin")

\* faulty variant: the final status test of lines 151-153 is left out
After67Test_unchecked(a) ==
    IF a.sw1 = 103 /\ a.sw2 = 0
    THEN /\ pc' = "retry_67"
         /\ out' = Append(out, Msg("Errore 67:00 - Provo a leggere con lunghezza standard", a.sw1, a.sw2))
         /\ UNCHANGED ts_data
    ELSE /\ pc' = "return"
         /\ UNCHANGED <<out, ts_data>>

\* lines 144-153: the 67 00 test, then the final status test
After67Test(a) ==
    IF a.sw1 = 103 /\ a.sw2 = 0
    THEN /\ pc' = "retry_67"
         /\ out' = Append(out, Msg("Errore 67:00 - Provo a leggere con lunghezza standard", a.sw1, a.sw2))
         /\ UNCHANGED ts_data
    ELSE IF Failed(a)
    THEN ReturnNone("Errore durante la lettura dei dati", a)
    ELSE /\ pc' = "return"
         /\ UNCHANGED <<out, ts_data>>

\* lines 137-141: the first READ BINARY and the 6C test
After6CTest(a) ==
    IF a.sw1 = 108
    THEN /\ pc' = "retry_6c"
         /\ out' = Append(out, Msg("Riprovo con READ_BIN e lunghezza corretta", a.sw1, a.sw2))
         /\ UNCHANGED ts_data
    ELSE After67Test(a)

ReadBin ==
    /\ pc = "read_bin"
    /\ \E r \in Transmits(ReadReplies) :
          /\ Transmit(READ_BIN, r)
          /\ After6CTest(send_apdu(r))
    /\ UNCHANGED <<pinvars, debug, connected, disconnects, decodes, exc, run, prev>>

\* faulty variant: the 6C test is applied to the answer of the retry as well
Retry6C_while ==
    /\ pc = "retry_6c"
    /\ \E r \in Transmits(ReadReplies) :
          /\ Transmit(<<0, 176, 0, 0, sw2>>, r)
          /\ After6CTest(send_apdu(r))
    /\ UNCHANGED <<pinvars, debug, connected, disconnects, decodes, exc, run, prev>>

\* line 140-142: read_bin_with_length = [0x00, 0xB0, 0x00, 0x00, sw2]
Retry6C ==
    /\ pc = "retry_6c"
    /\ \E r \in Transmits(ReadReplies) :
          /\ Transmit(<<0, 176, 0, 0, sw2>>, r)
          /\ After67Test(send_apdu(r))
    /\ UNCHANGED <<pinvars, debug, connected, disconnects, decodes, exc, run, prev>>

\* faulty variant: the 67 00 test is applied again to the answer of the FF retry
AfterRetry67_again(a) == After67Test(a)

\* the final status test of lines 151-153
AfterRetry67(a) ==
    IF Failed(a)
    THEN ReturnNone("Errore durante la lettura dei dati", a)
    ELSE /\ pc' = "return"
         /\ UNCHANGED <<out, ts_data>>

\* line 148-149: read_bin_with_length = [0x00, 0xB0, 0x00, 0x00, 0xFF]
Retry67 ==
    /\ pc = "retry_67"
    /\ \E r \in Transmits(ReadReplies) :
          /\ Transmit(<<0, 176, 0, 0, 255>>, r)
          /\ AfterRetry67(send_apdu(r))
    /\ UNCHANGED <<pinvars, debug, connected, disconnects, decodes, exc, run, prev>>

\* faulty variant: a failed decode makes get_ts_data return None
get_ts_data_result_or_none(resp) ==
    IF decode_ts_data(resp).none THEN None
    ELSE [none |-> FALSE, raw_data |-> resp, hex_data |-> ToHex(resp),
          string_data |-> hex_to_string(ToHex(resp)),
          decoded_data |-> decode_ts_data(resp)]

\* lines 155-168: render, decode and return the dictionary
get_ts_data_result(resp) ==
    [none |-> FALSE, raw_data |-> resp, hex_data |-> ToHex(resp),
     string_data |-> hex_to_string(ToHex(resp)),
     decoded_data |-> decode_ts_data(resp)]

Return ==
    /\ pc = "return"
    /\ ts_data' = get_ts_data_result(response)
    /\ decodes' = Append(decodes, response)
    /\ out' = IF decode_ts_data(response).none
              THEN Append(out, MsgExc("Errore durante la decodifica", decode_ts_data(response).error))
              ELSE out
    /\ pc' = "report"
    /\ UNCHANGED <<pinvars, debug, connected, disconnects, sent, response, sw1, sw2,
                   exc, env, run, prev>>

---------------------------------------------------------------------------
(* main *)

\* lines 285-290: readers(), NoSmartCardReaderFound when the list is empty
Readers ==
    /\ pc = "main"
    /\ \E o \in Outcomes(env.readers) :
          /\ env' = [env EXCEPT !.readers = o]
          /\ IF o = "raise"
             THEN pc' = "done" /\ exc' = "NoSmartCardReaderFound"
             ELSE pc' = "connect" /\ exc' = exc
    /\ UNCHANGED <<pinvars, debug, connected, disconnects, sent, response, sw1, sw2,
                   ts_data, decodes, out, run, prev>>

\* lines 298-300 and 307-308: createConnection() and connect()
Connect ==
    /\ pc = "connect"
    /\ \E o \in Outcomes(env.connect) :
          /\ env' = [env EXCEPT !.connect = o]
          /\ IF o = "raise"
             THEN /\ pc' = "done"
                  /\ exc' = "NoSmartCardInserted"
                  /\ UNCHANGED connected
             ELSE /\ pc' = IF debug THEN "getATR" ELSE "select_mf"
                  /\ connected' = TRUE
                  /\ UNCHANGED exc
    /\ UNCHANGED <<pinvars, debug, disconnects, sent, response, sw1, sw2, ts_data,
                   decodes, out, run, prev>>

\* lines 301-308: with args.debug, connection.getATR() inside the same try as
\* connect(); its exception is re-raised as NoSmartCardInserted
GetATR ==
    /\ pc = "getATR"
    /\ \E o \in Outcomes(env.atr) :
          /\ env' = [env EXCEPT !.atr = o]
          /\ IF o = "raise"
             THEN pc' = "done" /\ exc' = "NoSmartCardInserted"
             ELSE pc' = "select_mf" /\ exc' = exc
    /\ UNCHANGED <<pinvars, debug, connected, disconnects, sent, response, sw1, sw2,
                   ts_data, decodes, out, run, prev>>

\* ts_data['decoded_data'] is truthy: not None and not the empty dict
Truthy(decoded_data) == ~decoded_data.none /\ DOMAIN decoded_data.dati_ts # {}

\* lines 314-328
Report ==
    /\ pc = "report"
    /\ out' = IF ts_data.none THEN out
              ELSE IF Truthy(ts_data.decoded_data)
              THEN Append(out, Msg("Dati decodificati:", 0, 0))
              ELSE Append(out, Msg("Non e' stato possibile decodificare i dati", 0, 0))
    /\ pc' = "finally"
    /\ UNCHANGED <<pinvars, debug, connected, disconnects, sent, response, sw1, sw2,
                   ts_data, decodes, exc, env, run, prev>>

\* lines 329-337: connection.disconnect(), its exception swallowed
Disconnect ==
    /\ pc = "finally"
    /\ \E o \in Outcomes(env.disconnect) :
          env' = [env EXCEPT !.disconnect = o]
    /\ disconnects' = disconnects + 1
    /\ pc' = "done"
    /\ UNCHANGED <<pinvars, debug, connected, sent, response, sw1, sw2, ts_data,
                   decodes, out, exc, run, prev>>

---------------------------------------------------------------------------
(* One execution of the script. *)

NoEnv == [readers |-> "?", connect |-> "?", atr |-> "?", apdu |-> <<>>,
          disconnect |-> "?"]

NoPrev == [debug |-> FALSE, sent |-> <<>>, ts_data |-> None, disconnects |-> 0,
           exc |-> ""]

Init ==
    /\ debug \in BOOLEAN
    /\ pc = "main"
    /\ connected = FALSE
    /\ disconnects = 0
    /\ sent = <<>>
    /\ response = <<>>
    /\ sw1 = 0
    /\ sw2 = 0
    /\ ts_data = None
    /\ decodes = <<>>
    /\ out = <<>>
    /\ exc = ""
    /\ env = NoEnv
    /\ run = 1
    /\ prev = NoPrev
    /\ entered_pin = <<>>
    /\ entered_pin_is_ok = FALSE
    /\ gpio = [pin \in {23, 24, 25, 16} |-> "IN"]
    /\ lcd = <<>>
    /\ registered = FALSE
    /\ exited = FALSE
    /\ pressed = ""

Next ==
    \/ Readers
    \/ Connect
    \/ GetATR
    \/ SelectMF
    \/ SelectDF
    \/ SelectEF
    \/ ReadBin
    \/ Retry6C
    \/ Retry67
    \/ Return
    \/ Report
    \/ Disconnect

Spec == Init /\ [][Next]_vars

---------------------------------------------------------------------------
(* Two executions against the same reader and card, the second with the    *)
(* debug flag flipped: the transport repeats what it did the first time.   *)

Again ==
    /\ pc = "done"
    /\ run = 1
    /\ prev' = [debug |-> debug, sent |-> sent, ts_data |-> ts_data,
                disconnects |-> disconnects, exc |-> exc]
    /\ run' = 2
    /\ debug' = ~debug
    /\ pc' = "main"
    /\ connected' = FALSE
    /\ disconnects' = 0
    /\ sent' = <<>>
    /\ response' = <<>>
    /\ sw1' = 0
    /\ sw2' = 0
    /\ ts_data' = None
    /\ decodes' = <<>>
    /\ out' = <<>>
    /\ exc' = ""
    /\ UNCHANGED <<env, pinvars>>

NextPair == Next \/ Again

SpecPair == Init /\ [][NextPair]_vars

---------------------------------------------------------------------------
(* activate_relay_via_pin_code.py: a keypad, a display and four relays.     *)
(* The digit keys of KEYPAD are written as their str(); int(key) and        *)
(* str(key) convert.  A handler runs as one step on the module's globals.   *)

KEYPAD == <<<<"1", "2", "3", "A">>,
            <<"4", "5", "6", "B">>,
            <<"7", "8", "9", "C">>,
            <<"*", "0", "#", "D">>>>

Keys == {KEYPAD[r][c] : r \in 1..4, c \in 1..4}

dict_relay_bcm == (1 :> 23) @@ (2 :> 24) @@ (3 :> 25) @@ (4 :> 16)

correct_pin == <<"1", "2", "3", "4">>

\* int(key): ValueError for the keys that are not decimal digits
int(key) ==
    LET digits == <<"0", "1", "2", "3", "4", "5", "6", "7", "8", "9">>
    IN  IF \E i \in 1..10 : digits[i] = key
        THEN [ok |-> TRUE, val |-> (CHOOSE i \in 1..10 : digits[i] = key) - 1]
        ELSE [ok |-> FALSE, val |-> 0]

str(key) == key

\* the module's globals, as the handlers see them
Globals ==
    [entered_pin |-> entered_pin, entered_pin_is_ok |-> entered_pin_is_ok,
     gpio |-> gpio, lcd |-> <<>>, registered |-> registered, exited |-> exited]

activate_relay(st, relay_id) ==
    IF 1 <= relay_id /\ relay_id <= 4
    THEN [st EXCEPT !.lcd = Append(@, "Activate Relay"),
                    !.gpio[dict_relay_bcm[relay_id]] = "LOW"]
    ELSE st

cleanup(st) ==
    [st EXCEPT !.lcd = Append(@, "Goodbye..."), !.registered = FALSE]

\* sys.exit()
exit(st) == [st EXCEPT !.exited = TRUE]

select_relay_to_activate(st) == [st EXCEPT !.lcd = Append(@, "Digit Relay Id")]

correct_pin_entered(st) ==
    select_relay_to_activate(
        [st EXCEPT !.entered_pin_is_ok = TRUE, !.lcd = Append(@, "Access granted")])

incorrect_pin_entered(st) ==
    exit(cleanup([st EXCEPT !.lcd = Append(@, "Access denied")]))

\* faulty variant: a PIN of the right length is accepted without comparison
check_pin_by_length(st, key) ==
    IF Len(st.entered_pin) = Len(correct_pin) \/ key = "#"
    THEN IF Len(st.entered_pin) = Len(correct_pin)
         THEN correct_pin_entered(st)
         ELSE incorrect_pin_entered(st)
    ELSE st

check_pin(st, key) ==
    IF Len(st.entered_pin) = Len(correct_pin) \/ key = "#"
    THEN IF st.entered_pin = correct_pin
         THEN correct_pin_entered(st)
         ELSE incorrect_pin_entered(st)
    ELSE st

digit_entered(st, key) ==
    IF st.entered_pin_is_ok
    THEN activate_relay(st, int(key).val)
    ELSE check_pin([st EXCEPT !.entered_pin = @ \o <<str(key)>>,
                              !.lcd = Append(@, "PIN: ")], key)

non_digit_entered(st, key) ==
    IF key = "C" THEN exit(cleanup(st))
    ELSE LET deleted ==
                 IF ~st.entered_pin_is_ok /\ key = "*" /\ Len(st.entered_pin) > 0
                 THEN [st EXCEPT !.entered_pin = Slice(@, 0, -1),
                                 !.lcd = Append(@, "PIN: ")]
                 ELSE st
         IN  IF ~deleted.entered_pin_is_ok /\ key = "#" /\ Len(deleted.entered_pin) > 0
             THEN check_pin(deleted, key)
             ELSE deleted

key_pressed(st, key) ==
    IF int(key).ok
    THEN IF 0 <= int(key).val /\ int(key).val <= 9 THEN digit_entered(st, key) ELSE st
    ELSE non_digit_entered(st, key)

Store(st) ==
    /\ entered_pin' = st.entered_pin
    /\ entered_pin_is_ok' = st.entered_pin_is_ok
    /\ gpio' = st.gpio
    /\ lcd' = st.lcd
    /\ registered' = st.registered
    /\ exited' = st.exited

\* lines 222-232: the handler is registered, the display and the relays set up
Start ==
    /\ ~registered
    /\ ~exited
    /\ Store([Globals EXCEPT !.registered = TRUE,
                             !.lcd = <<"Enter your PIN">>,
                             !.gpio = [pin \in DOMAIN gpio |-> "HIGH"]])
    /\ UNCHANGED <<cardvars, pressed>>

\* the keypad invokes the registered handler with a key
KeyPressed ==
    /\ registered
    /\ ~exited
    /\ \E key \in Keys :
          /\ Store(key_pressed(Globals, key))
          /\ pressed' = key
    /\ UNCHANGED cardvars

\* lines 234-241: Ctrl-C ends the wait loop, finally: cleanup()
KeyboardInterrupt ==
    /\ registered
    /\ ~exited
    /\ Store(exit(cleanup(Globals)))
    /\ UNCHANGED <<cardvars, pressed>>

InitPin == Init /\ ~debug

NextPin == Start \/ KeyPressed \/ KeyboardInterrupt

SpecPin == InitPin /\ [][NextPin]_vars

---------------------------------------------------------------------------
(* Vocabulary of the properties.  In one execution the i-th entry of        *)
(* env.apdu is what the transport did with the i-th command of sent.        *)

\* the transport answered the i-th command with status 90 00
Ok(i) == ~env.apdu[i].raises /\ env.apdu[i].sw1 = 144 /\ env.apdu[i].sw2 = 0

\* the transport answered the i-th command with status (a, b)
Status(i, a, b) ==
    ~env.apdu[i].raises /\ env.apdu[i].sw1 = a /\ env.apdu[i].sw2 = b

\* get_ts_data has returned to main
Returned == pc \in {"report", "finally", "done"}

\* how many times apdu was transmitted
Times(apdu) == Cardinality({i \in 1..Len(sent) : sent[i] = apdu})

\* the commands that are a READ BINARY: 00 B0 ...
ReadsSent == {i \in 1..Len(sent) : sent[i][2] = 176}

\* decode_ts_data returned a dictionary
Decoded == Returned /\ ~ts_data.none /\ ~ts_data.decoded_data.none

\* the fields decode_ts_data read from the buffer
Trace == ts_data.decoded_data.trace

---------------------------------------------------------------------------
(* C1: when the first READ BINARY is answered 6C n, exactly one retry is    *)
(* transmitted, it is 00 B0 00 00 n, and no further READ BINARY follows     *)
(* whatever the retry returns; no run transmits more than two READ BINARY.  *)
C1_OneRetryAfter6C ==
    /\ Cardinality(ReadsSent) <= 2
    /\ (Len(sent) >= 4 /\ ~env.apdu[4].raises /\ env.apdu[4].sw1 = 108) =>
          /\ Len(sent) <= 5
          /\ Len(sent) = 5 => sent[5] = <<0, 176, 0, 0, env.apdu[4].sw2>>
          /\ Returned => Len(sent) = 5

(* C2: SELECT Dedicated File is transmitted only after SELECT Master File   *)
(* returned 90 00, SELECT Elementary File only after SELECT Dedicated File  *)
(* returned 90 00; each SELECT is transmitted at most once, and a failed    *)
(* SELECT makes get_ts_data return None with nothing transmitted after it.  *)
C2_SelectOrder ==
    /\ \A i \in 1..Len(sent) :
          /\ sent[i] = SELECT_DF1 => i = 2 /\ sent[1] = SELECT_MF /\ Ok(1)
          /\ sent[i] = SELECT_EF_PERS => i = 3 /\ sent[2] = SELECT_DF1 /\ Ok(2)
    /\ Times(SELECT_MF) <= 1 /\ Times(SELECT_DF1) <= 1 /\ Times(SELECT_EF_PERS) <= 1
    /\ \A i \in 1..Len(sent) :
          (i <= 3 /\ ~Ok(i)) =>
             Len(sent) = i /\ Returned /\ ts_data.none /\ decodes = <<>>

\* the Dedicated File SELECT was transmitted, failed, and the run has ended
C2_Witness ==
    /\ pc = "done"
    /\ Len(sent) = 2
    /\ sent[2] = SELECT_DF1
    /\ Status(2, 106, 130)
    /\ ts_data.none

(* C3: once connection.connect() has succeeded, connection.disconnect() is  *)
(* invoked before main ends, on every exit path, with tracing on or off.    *)
C3_ReleasedOnEveryExit == (pc = "done" /\ connected) => disconnects >= 1

(* C4: decode_ts_data never returns a record holding a value shorter than   *)
(* its declared length: a field (the last one included) whose declared      *)
(* length reads past the end of the buffer makes the decode fail.           *)
C4_OverrunFails ==
    Decoded => \A k \in 1..Len(Trace) :
                  Trace[k].at + 2 + Trace[k].len <= Len(ts_data.raw_data)

(* C5: a date field with a non-zero declared length whose text is not       *)
(* exactly 8 characters makes decode_ts_data fail.                          *)
C5_DateOfEightOrFailure ==
    Decoded => \A k \in DateFields :
                  Trace[k].len # 0 => Trace[k].len = 8 /\ Trace[k].got = 8

(* C6: when connection.transmit raises, send_apdu returns ([], 0, 0); at     *)
(* every call site that fails the 90 00 test, so get_ts_data returns None   *)
(* with no further command transmitted and the decoder never invoked, and   *)
(* no exception leaves main.                                                *)
C6_TransportFaultAbsorbed ==
    \A i \in 1..Len(sent) :
       env.apdu[i].raises =>
          /\ Len(sent) = i
          /\ response = <<>> /\ sw1 = 0 /\ sw2 = 0
          /\ Returned
          /\ ts_data.none
          /\ decodes = <<>>
          /\ exc = ""

\* transmit raised on the retry that follows 6C n, and the run has ended
C6_Witness ==
    /\ pc = "done"
    /\ Len(sent) = 5
    /\ Status(4, 108, 16)
    /\ env.apdu[5].raises
    /\ ts_data.none

(* C7: when the first READ BINARY is answered 67 00, exactly one retry is   *)
(* transmitted, it is 00 B0 00 00 FF, and get_ts_data returns a result      *)
(* exactly when that retry is answered 90 00.                               *)
C7_OneRetryAfter6700 ==
    (Len(sent) >= 4 /\ Status(4, 103, 0)) =>
       /\ Len(sent) <= 5
       /\ Len(sent) = 5 => sent[5] = <<0, 176, 0, 0, 255>>
       /\ Returned => /\ Len(sent) = 5
                      /\ ~ts_data.none <=> Ok(5)

\* 67 00, then the retry answered 90 00 with a record, and the run has ended
C7_Witness ==
    /\ pc = "done"
    /\ Len(sent) = 5
    /\ Status(4, 103, 0)
    /\ Ok(5)
    /\ ~ts_data.none
    /\ ts_data.raw_data # <<>>

(* C8: when the three SELECTs and the first READ BINARY are all answered    *)
(* 90 00, exactly four commands are transmitted, in the order SELECT MF,    *)
(* SELECT DF, SELECT EF, READ BINARY 00 B0 00 00 00, no retry is issued and *)
(* get_ts_data returns a result carrying the payload.                       *)
C8_HappyPath ==
    (Len(sent) >= 4 /\ \A i \in 1..4 : Ok(i)) =>
       /\ sent = <<SELECT_MF, SELECT_DF1, SELECT_EF_PERS, <<0, 176, 0, 0, 0>>>>
       /\ pc \notin {"retry_6c", "retry_67"}
       /\ Returned => /\ ~ts_data.none
                      /\ ts_data.raw_data = env.apdu[4].payload

\* four commands answered 90 00, a record returned, and the run has ended
C8_Witness ==
    /\ pc = "done"
    /\ Len(sent) = 4
    /\ \A i \in 1..4 : Ok(i)
    /\ ~ts_data.none
    /\ ts_data.raw_data = Record(1, SegText, TRUE, 0)

(* C9: tracing is additive: against the same reader, card and transport, an *)
(* execution with the debug flag on and one with it off transmit the same   *)
(* commands, return the same result, end with the same exception or none    *)
(* and release the connection in the same way.                              *)
C9_TracingAdditive ==
    (run = 2 /\ pc = "done") =>
       /\ debug # prev.debug
       /\ sent = prev.sent
       /\ ts_data = prev.ts_data
       /\ disconnects = prev.disconnects
       /\ exc = prev.exc

(* C10: decode_ts_data is all-or-nothing: it returns None, or a record in   *)
(* which every field with a non-zero declared length is present in full;    *)
(* and when a field's bytes hold a byte >= 0x80 it returns None.            *)
C10_AllOrNothing ==
    /\ Decoded =>
          \A k \in 1..Len(Trace) :
             Trace[k].len # 0 =>
                /\ FieldNames[k] \in DOMAIN ts_data.decoded_data.dati_ts
                /\ Trace[k].got = Trace[k].len
    /\ (Returned /\ ~ts_data.none) =>
          \A k \in 1..Len(Trace) :
             (\E i \in 1..Len(ts_data.raw_data) :
                 /\ i > Trace[k].at + 2
                 /\ i <= Trace[k].at + 2 + Trace[k].len
                 /\ ts_data.raw_data[i] >= 128)
             => ts_data.decoded_data.none

---------------------------------------------------------------------------
(* The on-card layout, read off a buffer independently of decode_ts_data:   *)
(* six header bytes, then eleven fields, each two hex digits giving the     *)
(* length L followed by L bytes.                                            *)

\* the field names in on-card order
CardOrder == <<"emettitore", "data_emissione", "data_scadenza", "cognome",
               "nome", "data_nascita", "sesso", "statura", "codice_fiscale",
               "cittadinanza", "comune_nascita">>

\* the length the two bytes at offset pos (0-based) spell, -1 when they are
\* not two hex digits inside the buffer
PrefixAt(b, pos) ==
    IF pos >= 0 /\ pos + 2 <= Len(b) /\ IsHexDigit(b[pos + 1]) /\ IsHexDigit(b[pos + 2])
    THEN 16 * HexVal(b[pos + 1]) + HexVal(b[pos + 2])
    ELSE -1

\* the offsets and lengths of the fields from field k at offset pos on, as
\* far as the prefixes are well formed
RECURSIVE FieldsFrom(_, _, _)
FieldsFrom(b, pos, k) ==
    IF k > 11 \/ PrefixAt(b, pos) < 0 THEN <<>>
    ELSE <<[at |-> pos, len |-> PrefixAt(b, pos)]>>
         \o FieldsFrom(b, pos + 2 + PrefixAt(b, pos), k + 1)

\* the fields of b: the header is six bytes long
Fields(b) == FieldsFrom(b, 6, 1)

\* the bytes of a field
FieldBytes(b, f) == SubSeq(b, f.at + 3, f.at + 2 + f.len)

\* DDMMYYYY presented as DD/MM/YYYY
Presented(k, text) ==
    IF k \in {2, 3, 6}
    THEN SubSeq(text, 1, 2) \o <<47>> \o SubSeq(text, 3, 4) \o <<47>> \o SubSeq(text, 5, 8)
    ELSE text

\* six header bytes followed by exactly eleven length-prefixed ASCII fields,
\* the dates empty or of eight characters
WellFormed(b) ==
    LET fs == Fields(b)
    IN  /\ Len(fs) = 11
        /\ fs[11].at + 2 + fs[11].len = Len(b)
        /\ \A i \in 7..Len(b) : b[i] < 128
        /\ \A k \in {2, 3, 6} : fs[k].len \in {0, 8}

(* C11: for a well-formed record decode_ts_data assigns the k-th            *)
(* length-prefixed segment to the k-th field name of the fixed order        *)
(* issuer, issue date, expiry date, surname, given name, birth date, sex,   *)
(* height, fiscal code, citizenship, birth municipality, the dates as       *)
(* DD/MM/YYYY.                                                              *)
C11_FieldsInCardOrder ==
    (Returned /\ ~ts_data.none /\ WellFormed(ts_data.raw_data)) =>
       LET fs == Fields(ts_data.raw_data)
           d  == ts_data.decoded_data
       IN  /\ ~d.none
           /\ DOMAIN d.dati_ts = {CardOrder[k] : k \in {j \in 1..11 : fs[j].len > 0}}
           /\ \A k \in 1..11 :
                 fs[k].len > 0 =>
                    d.dati_ts[CardOrder[k]]
                       = Presented(k, FieldBytes(ts_data.raw_data, fs[k]))

\* header, 06 MININT, 08 01012030 and nine more fields: issuer and issue date
C11_Witness ==
    /\ pc = "done"
    /\ ~ts_data.none
    /\ ts_data.raw_data = Record(1, SegIssuer, TRUE, 0)
    /\ ts_data.decoded_data.dati_ts["emettitore"] = <<77, 73, 78, 73, 78, 84>>
    /\ ts_data.decoded_data.dati_ts["data_emissione"]
          = <<48, 49, 47, 48, 49, 47, 50, 48, 51, 48>>
    /\ ts_data.decoded_data.dati_ts["cognome"] = <<77>>

(* C12: a field whose length prefix is 00 is absent from the record         *)
(* decode_ts_data returns (no key, not an empty string), and the fields     *)
(* after it are still decoded at the correct positions.                     *)
C12_ZeroLengthAbsent ==
    Decoded =>
       LET b == ts_data.raw_data
           d == ts_data.decoded_data.dati_ts
       IN  \A k \in 1..11 :
              PrefixAt(b, Trace[k].at) = 0 =>
                 /\ CardOrder[k] \notin DOMAIN d
                 /\ k < 11 =>
                       /\ Trace[k + 1].at = Trace[k].at + 2
                       /\ (PrefixAt(b, Trace[k].at + 2) > 0
                              /\ Trace[k].at + 4 + PrefixAt(b, Trace[k].at + 2) <= Len(b))
                          => /\ CardOrder[k + 1] \in DOMAIN d
                             /\ k + 1 \notin {2, 3, 6} =>
                                   d[CardOrder[k + 1]]
                                      = SubSeq(b, Trace[k].at + 5,
                                               Trace[k].at + 4 + PrefixAt(b, Trace[k].at + 2))

\* every field holds a value but statura, whose prefix is 00
C12_Witness ==
    /\ pc = "done"
    /\ ~ts_data.none
    /\ ts_data.raw_data = Record(8, Seg00, TRUE, 0)
    /\ ~ts_data.decoded_data.none
    /\ DOMAIN ts_data.decoded_data.dati_ts = {CardOrder[k] : k \in 1..11} \ {"statura"}
    /\ ts_data.decoded_data.dati_ts["codice_fiscale"] = <<77>>

(* C13: the printable rendering maps every byte in 0x20..0x7E to its own    *)
(* character and every other byte to '.', one character per byte; the hex   *)
(* rendering is two uppercase digits per byte, and converting it back       *)
(* gives the bytes again, so a printable-only buffer is rendered as itself. *)
C13_PrintableAndHex ==
    (Returned /\ ~ts_data.none) =>
       LET b == ts_data.raw_data
           h == ts_data.hex_data
           t == ts_data.string_data
           digit(c) == IF c <= 57 THEN c - 48 ELSE c - 55
       IN  /\ Len(t) = Len(b)
           /\ \A i \in 1..Len(b) :
                 t[i] = IF b[i] \in 32..126 THEN b[i] ELSE 46
           /\ ascii_dump(b) = t
           /\ Len(h) = 2 * Len(b)
           /\ \A i \in 1..Len(h) : h[i] \in (48..57) \cup (65..70)
           /\ \A i \in 1..Len(b) : 16 * digit(h[2 * i - 1]) + digit(h[2 * i]) = b[i]
           /\ (\A i \in 1..Len(b) : b[i] \in 32..126) => t = b

\* a printable-only record was read and rendered
C13_Witness ==
    /\ pc = "done"
    /\ ~ts_data.none
    /\ ts_data.raw_data = RecordText
    /\ ts_data.string_data = RecordText
    /\ SubSeq(ts_data.hex_data, 1, 6) = <<50, 48, 55, 69, 52, 49>>

(* C14: in activate_relay_via_pin_code.py a relay output goes LOW only in  *)
(* a key press that finds the entered PIN already compared equal to the     *)
(* correct one; and a PIN of at least one digit that differs from the       *)
(* correct one, once it has the full length or is confirmed with '#', gets  *)
(* "Access denied" and the script exits, its handler unregistered.          *)
(* ('#' with nothing typed is ignored: there is no PIN to confirm.)         *)
C14_RelayOnlyAfterPin ==
    /\ [](/\ (\E pin \in DOMAIN gpio : gpio[pin] = "LOW") => entered_pin_is_ok
          /\ entered_pin_is_ok => entered_pin = correct_pin
          /\ (/\ entered_pin # <<>>
              /\ entered_pin # correct_pin
              /\ Len(entered_pin) = Len(correct_pin) \/ pressed = "#")
             => /\ exited
                /\ ~registered
                /\ \E i \in 1..Len(lcd) : lcd[i] = "Access denied"
                /\ \A pin \in DOMAIN gpio : gpio[pin] # "LOW")
    /\ [][(\E pin \in DOMAIN gpio : gpio'[pin] = "LOW" /\ gpio[pin] # "LOW")
             => entered_pin_is_ok /\ entered_pin = correct_pin]_vars

\* the PIN was typed, and then key 2 switched relay 2 (BCM 24) on
C14_Witness ==
    /\ entered_pin_is_ok
    /\ entered_pin = correct_pin
    /\ pressed = "2"
    /\ gpio = [pin \in {23, 24, 25, 16} |-> IF pin = 24 THEN "LOW" ELSE "HIGH"]
    /\ ~exited

\* the sum of the declared lengths of the fields read
RECURSIVE SumLen(_)
SumLen(trace) == IF trace = <<>> THEN 0 ELSE Head(trace).len + SumLen(Tail(trace))

(* C15: the cursor of decode_ts_data starts at 6 and advances, field after  *)
(* field, by 2 + L, L the declared length of the field; the value of a      *)
(* field is exactly the L bytes after its prefix; after a successful decode *)
(* the cursor is 6 + 22 + the sum of the eleven declared lengths.           *)
C15_CursorAdvance ==
    (Returned /\ ~ts_data.none) =>
       LET b == ts_data.raw_data
           d == ts_data.decoded_data
           t == d.trace
       IN  /\ t # <<>> => t[1].at = 6
           /\ \A k \in 1..Len(t) - 1 : t[k + 1].at = t[k].at + 2 + t[k].len
           /\ \A k \in 1..Len(t) :
                 t[k].len > 0 => /\ t[k].got = t[k].len
                                 /\ t[k].at + 2 + t[k].len <= Len(b)
           /\ ~d.none => /\ Len(t) = 11
                         /\ d.pos = 6 + 22 + SumLen(t)

(* C16: every length prefix decode_ts_data accepts is two hexadecimal       *)
(* digits, so its L is in 0..255; a sign, white space or a single last byte *)
(* in the place of a prefix fails the decode; hence the cursor never        *)
(* decreases and is never negative.                                         *)
C16_PrefixTwoHexDigits ==
    (Returned /\ ~ts_data.none) =>
       LET b == ts_data.raw_data
           d == ts_data.decoded_data
           t == d.trace
       IN  /\ \A k \in 1..Len(t) :
                 /\ t[k].at >= 0
                 /\ PrefixAt(b, t[k].at) = t[k].len
                 /\ t[k].len \in 0..255
           /\ \A k \in 1..Len(t) - 1 : t[k + 1].at >= t[k].at
           /\ d.pos >= 0
           /\ t # <<>> => d.pos >= t[Len(t)].at

(* C17: decode_ts_data runs only after the three SELECTs and the READ      *)
(* BINARY stage ended with 90 00: when a SELECT fails, or the last READ     *)
(* BINARY is not answered 90 00, get_ts_data returns None and the decoder   *)
(* is never invoked.                                                        *)
C17_DecodeOnlyAfterSuccess ==
    /\ Len(decodes) <= 1
    /\ decodes # <<>> =>
          /\ Len(sent) >= 4
          /\ SubSeq(sent, 1, 3) = <<SELECT_MF, SELECT_DF1, SELECT_EF_PERS>>
          /\ \A i \in 1..3 : Ok(i)
          /\ Len(sent) \in ReadsSent
          /\ Ok(Len(sent))
    /\ (Returned /\ sent # <<>> /\ \E i \in (1..Min(3, Len(sent))) \cup {Len(sent)} : ~Ok(i))
          => /\ ts_data.none
             /\ decodes = <<>>

\* a 6C retry answered 6A 82: five commands, no decode
C17_Witness ==
    /\ pc = "done"
    /\ Len(sent) = 5
    /\ Status(4, 108, 16)
    /\ Status(5, 106, 130)
    /\ ts_data.none
    /\ decodes = <<>>

\* the statements of get_ts_data, each with the greatest number of
\* statements that can still follow it
Remaining ==
    [p \in {"select_mf", "select_df", "select_ef", "read_bin", "retry_6c",
            "retry_67", "return"} |->
        CASE p = "select_mf" -> 6 [] p = "select_df" -> 5 [] p = "select_ef" -> 4
          [] p = "read_bin" -> 3 [] p = "retry_6c" -> 2 [] p = "retry_67" -> 1
          [] p = "return" -> 0]

(* C18: get_ts_data terminates whatever the card answers and whenever the  *)
(* transport fails: once entered it returns, and it transmits a bounded     *)
(* number of commands (at most three SELECTs and three READ BINARY): every *)
(* command of it gets an answer or a fault, and every statement run leaves  *)
(* fewer statements to run.                                                 *)
C18_Terminates ==
    /\ [](/\ Len(sent) <= 6
          /\ pc \in {"select_mf", "select_df", "select_ef"} => Transmits(SelectReplies) # {}
          /\ pc \in {"read_bin", "retry_6c", "retry_67"} => Transmits(ReadReplies) # {})
    /\ [][(pc \in DOMAIN Remaining) =>
             (\/ pc' \in DOMAIN Remaining /\ Remaining[pc'] < Remaining[pc]
              \/ Returned')]_vars

\* the longest run: 6C on the read, 67 00 on the retry, then the FF read
C18_Witness ==
    /\ Returned
    /\ Len(sent) = 6
    /\ Status(4, 108, 16)
    /\ Status(5, 103, 0)
    /\ sent[6] = <<0, 176, 0, 0, 255>>

\* the texts of the three SELECT errors
StageText ==
    <<"Errore durante la selezione del Master File",
      "Errore durante la selezione del DF",
      "Errore durante la selezione dell'EF">>

\* the status pair get_ts_data saw for the i-th command
Seen(i) == IF env.apdu[i].raises THEN <<0, 0>> ELSE <<env.apdu[i].sw1, env.apdu[i].sw2>>

\* a failed SELECT is reported last, with its stage and its status pair
SelectReported ==
    \A i \in 1..3 :
       (Returned /\ Len(sent) = i /\ ~Ok(i)) =>
          /\ ts_data.none
          /\ out # <<>>
          /\ out[Len(out)] = [msg |-> StageText[i], sw1 |-> Seen(i)[1], sw2 |-> Seen(i)[2]]

\* a failed read is reported last, with the status pair of the last READ BINARY
ReadReported ==
    (Returned /\ Len(sent) >= 4 /\ ~Ok(Len(sent))) =>
       /\ ts_data.none
       /\ out # <<>>
       /\ out[Len(out)] = [msg |-> "Errore durante la lettura dei dati",
                           sw1 |-> Seen(Len(sent))[1], sw2 |-> Seen(Len(sent))[2]]

\* decode_ts_data returned None
DecodeFailed == Returned /\ ~ts_data.none /\ ts_data.decoded_data.none

\* the line m names the field f: f is its text or one of its text arguments
Names(m, f) == \E c \in DOMAIN m \ {"sw1", "sw2"} : m[c] = f

C20_RawIsLastPayload ==
    (Returned /\ ~ts_data.none) =>
       /\ Len(sent) \in ReadsSent
       /\ Ok(Len(sent))
       /\ ts_data.raw_data = env.apdu[Len(sent)].payload
       /\ decodes = <<env.apdu[Len(sent)].payload>>

\* the first READ BINARY answered 6C 10 with bytes, the retry 90 00 with a record
C20_Witness ==
    /\ pc = "done"
    /\ ~ts_data.none
    /\ Len(sent) = 5
    /\ Status(4, 108, 16)
    /\ env.apdu[4].payload = Junk
    /\ env.apdu[5].payload = RecordText
    /\ ts_data.raw_data = RecordText

\* main printed the line text
Printed(text) == \E i \in 1..Len(out) : out[i].msg = text

(* C21: main reports the decode as successful exactly when decode_ts_data   *)
(* returned a record, and prints that the data could not be decoded exactly *)
(* when decode_ts_data returned None; a well-formed record whose eleven     *)
(* fields all have length zero is reported as a successful decode.          *)
C21_ReportMatchesDecode ==
    (pc \in {"finally", "done"} /\ ~ts_data.none) =>
       /\ Printed("Dati decodificati:") <=> ~ts_data.decoded_data.none
       /\ Printed("Non e' stato possibile decodificare i dati") <=> ts_data.decoded_data.none

\* the three SELECTs and the READ BINARY stage ended with 90 00
ReadSucceeded ==
    /\ Returned
    /\ Len(sent) >= 4
    /\ \A i \in (1..3) \cup {Len(sent)} : Ok(i)

(* C22: a decode failure does not discard what was read: when the read      *)
(* succeeded and decode_ts_data fails on the payload, get_ts_data returns a *)
(* dictionary with the raw payload and its hex rendering, its decoded_data  *)
(* None, and no exception leaves get_ts_data.                               *)
C22_RawKeptOnDecodeFailure ==
    (ReadSucceeded /\ decode_ts_data(env.apdu[Len(sent)].payload).none) =>
       LET payload == env.apdu[Len(sent)].payload
           digit(c) == IF c <= 57 THEN c - 48 ELSE c - 55
       IN  /\ ~ts_data.none
           /\ ts_data.raw_data = payload
           /\ Len(ts_data.hex_data) = 2 * Len(payload)
           /\ \A i \in 1..Len(payload) :
                 16 * digit(ts_data.hex_data[2 * i - 1]) + digit(ts_data.hex_data[2 * i]) = payload[i]
           /\ ts_data.decoded_data.none
           /\ exc = ""
           /\ pc = "done" => disconnects = 1

\* a surname with a byte >= 0x80: the bytes are kept, the decode is None
C22_Witness ==
    /\ pc = "done"
    /\ ReadSucceeded
    /\ ts_data.raw_data = Record(4, SegHigh, TRUE, 0)
    /\ SubSeq(ts_data.hex_data, 1, 14) = <<48, 48, 48, 48, 48, 48, 48, 48, 48, 48, 48, 48, 51, 48>>
    /\ ts_data.decoded_data.none
    /\ ts_data.decoded_data.error = "UnicodeDecodeError"
    /\ exc = ""

===========================================================================
